---- MODULE Spec2Model ----
(***************************************************************************)
(* A model of the cross-network relay of basement_bot/plugins/relay.py:    *)
(* the DiscordRelay cog (producers, Outbound Buffer, Publisher Loop) and   *)
(* the IRCReceiver cog (Consumer Loop, Event Router, moderation dispatch). *)
(*                                                                         *)
(* Both cogs run on one asyncio event loop: code between two awaits is     *)
(* atomic, and other callbacks run only while a coroutine is suspended at  *)
(* an await.  An action of this module is one such atomic stretch.         *)
(***************************************************************************)
EXTENDS Integers, Sequences, FiniteSets, TLC

\* ------------------------------------------------------------------ bounds
\* The number of local events the producers append in one behaviour.
MaxEvents == 4
\* The largest configured send_limit explored (0 .. MaxSendLimit).
MaxSendLimit == 2
\* The configured stale_seconds (the staleness threshold of spec section 8).
StaleSeconds == 300
\* The most responses one consume() returns.
MaxBatch == 2
\* The most error notices the Publisher is followed through in one outage.
MaxAlerts == 6

\* ------------------------------------------------------- program constants
\* IRCReceiver.execute: the notice is sent while self.error_count < 5
AlertLimit == 5

\* ------------------------------------------------------------------- state
VARIABLES
    \* the configuration read by both cogs (self.config), fixed after load
    config,
    \* DiscordRelay: plugins["relay"]["memory"]["send_buffer"]
    send_buffer,
    \* DiscordRelay: self.mq_error_state, set by MqPlugin.publish
    relay_mq_error_state,
    \* DiscordRelay.execute: "idle" between ticks, "alert" while suspended in
    \* `await channel.send(...)` of the error notice
    relay_pc,
    \* the next event id serialize() assigns (stands for uuid.uuid4())
    next_id,
    \* history: what the broker accepted, in publish order
    broker_log,
    \* history of the current/last Publisher tick: the buffer when the tick
    \* started, the batch it took, the outcome of its publish attempt
    \* ("none" before the first tick, "empty", "ok", "fail"), and the entries
    \* producers appended since the tick started
    tick_pre, tick_bodies, tick_outcome, tick_new,
    \* history: the error notices the Publisher sent since its last
    \* successful publish
    relay_alerts,
    \* which payloads the peer publishes on the inbound broker topic
    topic,
    \* IRCReceiver: self.error_count
    error_count,
    \* history: the error notices the Consumer sent since it was constructed
    receiver_alerts,
    \* IRCReceiver: self.mq_error_state, set by MqPlugin.consume
    receiver_mq_error_state,
    \* IRCReceiver.execute: "idle" between ticks, "loop" inside
    \* `for response in responses`, "done" when the tick returned, "raised"
    \* when an exception left execute()
    receiver_pc,
    \* the list consume() returned to the current/last Consumer tick
    responses,
    \* history of the current/last Consumer tick: what handle_event did with
    \* each response handled so far (handled[i] belongs to responses[i]),
    \* the exception that left execute() ("none" if none), and whether the
    \* tick sent the broker alert
    handled, tick_raised, tick_alerted,
    \* serialize then deserialize of one event: "idle", "serialized" (the
    \* envelope is on the wire), "delivered" (deserialize returned or raised)
    rt_pc,
    \* history: the Munch serialize built, the JSON text it returned, the
    \* seconds between serialize and deserialize, what deserialize did and
    \* the Munch it returned
    rt_sent, rt_wire, rt_age, rt_got, rt_back,
    \* Rules: the rows of the Rule table, by guild_id
    rules_db,
    \* history: the rules object last given to write_new_rules for each
    \* guild, and the last call of the cog with what it returned or raised
    rules_written, rules_call,
    \* ServerGate: config.plugins.gate (verify_text, roles), fixed after load
    gate_config,
    \* the roles the author holds in the guild
    gate_held,
    \* history: the last message ServerGate.response saw and what it did
    gate_call

relay_vars == <<send_buffer, relay_mq_error_state, relay_pc, next_id,
                broker_log, tick_pre, tick_bodies, tick_outcome, tick_new,
                relay_alerts>>

receiver_vars == <<error_count, receiver_alerts, receiver_mq_error_state, receiver_pc,
                   responses, handled, tick_raised, tick_alerted>>

roundtrip_vars == <<rt_pc, rt_sent, rt_wire, rt_age, rt_got, rt_back>>

rules_vars == <<rules_db, rules_written, rules_call>>

gate_vars == <<gate_config, gate_held, gate_call>>

\* What neither cog of the relay touches.
side_vars == <<roundtrip_vars, rules_vars, gate_vars>>

\* What the relay's two cogs work on.
bridge_vars == <<config, topic, relay_vars, receiver_vars>>

vars == <<config, topic, relay_vars, receiver_vars, side_vars>>

\* ----------------------------------------------------------------- helpers
\* xs[n:] of Python for n >= 0
Drop(xs, n) == SubSeq(xs, n + 1, Len(xs))

\* ------------------------------------------------------------ DiscordRelay
\* serialize(type_, ctx): the envelope, reduced to the fields the relay
\* itself reads back: a fresh event.id and the event.type.
serialize(type_, id) == [id |-> id, type |-> type_]

\* match(ctx, content): the message is in a relay channel and is not a bot
\* command.
match(inRelayChannel, isBotCommand) == inRelayChannel /\ ~isBotCommand

\* response(ctx, content): one append, no await before it.
response ==
    /\ next_id <= MaxEvents
    /\ \E inRelayChannel \in BOOLEAN, isBotCommand \in BOOLEAN, factoid \in BOOLEAN :
          /\ match(inRelayChannel, isBotCommand)
          /\ LET type_ == IF factoid THEN "factoid" ELSE "message"
                 body  == serialize(type_, next_id)
             IN  /\ send_buffer' = Append(send_buffer, body)
                 /\ tick_new' = Append(tick_new, body)
          /\ next_id' = next_id + 1
    /\ UNCHANGED <<config, side_vars, relay_mq_error_state, relay_pc, broker_log,
                   tick_pre, tick_bodies, tick_outcome, relay_alerts, topic,
                   receiver_vars>>

\* A slip in the checks: a command without a target is sent on.
irc_command_passes_targetless(commands_allowed, inRelayChannel, nargs) ==
    commands_allowed /\ inRelayChannel /\ nargs >= 1

\* The early returns of irc_command: commands disabled, a channel that is
\* not a relay channel, no command (len(args) == 0), no target
\* (len(args) == 1).
irc_command_passes(commands_allowed, inRelayChannel, nargs) ==
    /\ commands_allowed
    /\ inRelayChannel
    /\ nargs # 0
    /\ nargs # 1

\* irc_command(ctx, *args) called from a channel that is or is not a relay
\* channel, with nargs arguments.
irc_command_on(inRelayChannel, nargs) ==
    IF irc_command_passes(config.commands_allowed, inRelayChannel, nargs)
    THEN LET body == serialize("command", next_id)
         IN  /\ send_buffer' = Append(send_buffer, body)
             /\ tick_new' = Append(tick_new, body)
             /\ next_id' = next_id + 1
    ELSE UNCHANGED <<send_buffer, tick_new, next_id>>

\* irc_command(ctx, *args): the early returns, then one append.
irc_command ==
    /\ next_id <= MaxEvents
    /\ \E inRelayChannel \in BOOLEAN, nargs \in 0..2 :
          irc_command_on(inRelayChannel, nargs)
    /\ UNCHANGED <<config, side_vars, relay_mq_error_state, relay_pc, broker_log,
                   tick_pre, tick_bodies, tick_outcome, relay_alerts, topic,
                   receiver_vars>>

\* A slip in the slice: idx <= send_limit in place of idx + 1 <= send_limit.
bodiesOf_offByOne(buffer, send_limit) ==
    LET kept == {i \in 1..Len(buffer) : i - 1 <= send_limit}
    IN  [i \in 1..Cardinality(kept) |-> buffer[i]]

\* The slice execute() takes: the entries whose idx + 1 <= send_limit
\* (idx counts from 0 in the code, i from 1 here).
bodiesOf(buffer, send_limit) ==
    LET kept == {i \in 1..Len(buffer) : i <= send_limit}
    IN  [i \in 1..Cardinality(kept) |-> buffer[i]]

\* MqPlugin.publish(bodies): sends the batch to the broker and leaves
\* mq_error_state telling whether that failed.
publish(reachable) == ~reachable

\* execute(), from the start of the tick to its end or to the await of the
\* error notice.  publish() is a plain call: nothing runs between taking the
\* slice and removing it.
DiscordRelay_execute ==
    /\ relay_pc = "idle"
    /\ \E reachable \in BOOLEAN, channelFound \in BOOLEAN :
          LET bodies == bodiesOf(send_buffer, config.send_limit)
              error  == publish(reachable)
          IN  /\ tick_pre' = send_buffer
              /\ tick_bodies' = bodies
              /\ tick_new' = <<>>
              /\ IF bodies # <<>>
                 THEN /\ relay_mq_error_state' = error
                      /\ broker_log' = IF error THEN broker_log
                                                ELSE broker_log \o bodies
                      /\ tick_outcome' = IF error THEN "fail" ELSE "ok"
                      /\ IF error /\ config.notice_errors
                         THEN \* just send to first channel on the map
                              /\ channelFound => relay_alerts < MaxAlerts
                              /\ relay_pc' = IF channelFound THEN "alert"
                                                             ELSE "idle"
                              /\ relay_alerts' = IF channelFound
                                                 THEN relay_alerts + 1
                                                 ELSE relay_alerts
                              /\ UNCHANGED send_buffer
                         ELSE \* remove from buffer
                              /\ send_buffer' = Drop(send_buffer, Len(bodies))
                              /\ relay_alerts' = IF error THEN relay_alerts
                                                          ELSE 0
                              /\ UNCHANGED relay_pc
                 ELSE /\ tick_outcome' = "empty"
                      /\ UNCHANGED <<send_buffer, relay_mq_error_state,
                                     relay_pc, broker_log, relay_alerts>>
    /\ UNCHANGED <<config, side_vars, next_id, topic, receiver_vars>>

\* execute() resumed: `await channel.send("**ERROR**: ...")` returned; the
\* tick ends.
DiscordRelay_execute_resume ==
    /\ relay_pc = "alert"
    /\ relay_pc' = "idle"
    /\ UNCHANGED <<config, side_vars, send_buffer, relay_mq_error_state, next_id,
                   broker_log, tick_pre, tick_bodies, tick_outcome, tick_new,
                   relay_alerts, topic, receiver_vars>>

\* Nothing serialized yet.
RoundTripStart ==
    /\ rt_pc = "idle"
    /\ rt_sent = <<>>
    /\ rt_wire = <<>>
    /\ rt_age = 0
    /\ rt_got = <<>>
    /\ rt_back = <<>>

\* The guilds of the bot.
Guilds == {"guild-1", "guild-2"}

\* A JSON document about a rules object: depth 0 is the object itself (a
\* dict or Munch), depth n > 0 a str that json.loads turns into depth n - 1.
Doc(depth, rules) == [depth |-> depth, rules |-> rules]

\* The Rule table is empty and no call was made.
RulesStart ==
    /\ rules_db = [guild \in Guilds |-> [stored |-> FALSE, doc |-> Doc(0, <<>>)]]
    /\ rules_written = [guild \in Guilds |-> [written |-> FALSE, rules |-> <<>>]]
    /\ rules_call = [op |-> "none", guild |-> "none", returned |-> Doc(0, <<>>),
                     count |-> 0, raised |-> "none"]

\* The default of verify_text and of roles (setup), an author with no role,
\* no message seen.
GateStart ==
    /\ gate_config = [verify_text |-> [prefixed |-> FALSE, letters |-> <<>>],
                      roles |-> <<>>]
    /\ gate_held = {}
    /\ gate_call = [op |-> "none",
                    content |-> [prefixed |-> FALSE, letters |-> <<>>],
                    is_admin |-> FALSE, held |-> {}, deleted |-> FALSE,
                    granted |-> {}, welcomed |-> FALSE, logged |-> FALSE]

SideStart ==
    /\ RoundTripStart
    /\ RulesStart
    /\ GateStart

\* DiscordRelay.preconfig().
RelayStart ==
    /\ send_buffer = <<>>
    /\ relay_mq_error_state = FALSE
    /\ relay_pc = "idle"
    /\ next_id = 1
    /\ broker_log = <<>>
    /\ tick_pre = <<>>
    /\ tick_bodies = <<>>
    /\ tick_outcome = "none"
    /\ tick_new = <<>>
    /\ relay_alerts = 0

\* IRCReceiver.preconfig().
ReceiverStart ==
    /\ error_count = 0
    /\ receiver_alerts = 0
    /\ receiver_mq_error_state = FALSE
    /\ receiver_pc = "idle"
    /\ responses = <<>>
    /\ handled = <<>>
    /\ tick_raised = "none"
    /\ tick_alerted = FALSE

\* The Publisher side: both cogs constructed, every send_limit,
\* notice_errors and commands_allowed; the Consumer Loop left aside.
RelayInit ==
    /\ config \in [send_limit : 0..MaxSendLimit,
                   notice_errors : BOOLEAN,
                   commands_allowed : BOOLEAN,
                   stale_seconds : {StaleSeconds}]
    /\ topic = "none"
    /\ RelayStart
    /\ ReceiverStart
    /\ SideStart

RelayNext ==
    \/ response
    \/ irc_command
    \/ DiscordRelay_execute
    \/ DiscordRelay_execute_resume

RelaySpec == RelayInit /\ [][RelayNext]_vars

\* ------------------------------------------------------------- IRCReceiver
\* The value Python's None.
None == "None"

\* The Channel Map: peer-network channel name -> local channel id.
channel_map ==
    [name \in {"#help", "#dev"} |-> IF name = "#help" THEN "id-help" ELSE "id-dev"]

\* self.channels: list(self.config.channel_map.values())
channels == {channel_map[name] : name \in DOMAIN channel_map}

\* author.permissions as the peer sends it: a string of IRC mode flags
\* ("o" operator, "v" voice), an object of booleans (the snapshot of spec
\* section 3), or null.  `members` is what Python's `in` finds in it: the
\* characters of a string, the keys of an object.
PermModes(flags) ==
    [form |-> "modes", members |-> flags,
     kick |-> FALSE, ban |-> FALSE, unban |-> FALSE, admin |-> FALSE]

PermSnapshot(kick, ban, admin) ==
    [form |-> "snapshot", members |-> {"kick", "ban", "unban", "admin"},
     kick |-> kick, ban |-> ban, unban |-> ban, admin |-> admin]

PermNull ==
    [form |-> "null", members |-> {},
     kick |-> FALSE, ban |-> FALSE, unban |-> FALSE, admin |-> FALSE]

\* The time a Consumer tick reads from the clock, in seconds.
Now == 2 * StaleSeconds + 2

\* event.time on the wire: a timestamp in the fixed format (form "ok", secs
\* its seconds), no such key ("absent"), null, or a string in another
\* format ("garbage").
Time(secs) == [form |-> "ok", secs |-> secs]

NoTime(form) == [form |-> form, secs |-> 0]

\* One payload of the broker.  json: "unparseable" (json.loads fails),
\* "no_event" (an object without "event") or "ok"; target: event.target
\* or "absent"; content: event.content, for a response "empty", "whois" or
\* "other" (the type of the response object).
Body(json, time, type, target, command, permissions, channel, content) ==
    [json |-> json, time |-> time, type |-> type, target |-> target,
     command |-> command, permissions |-> permissions, channel |-> channel,
     content |-> content]

Fresh == Time(Now - StaleSeconds + 1)

\* A slip in the router's list: a type that is none of the eight is taken
\* for a display type.
DisplayTypes_withUnknown ==
    {"message", "join", "part", "quit", "kick", "action", "other", "factoid",
     "unknown"}

DisplayTypes ==
    {"message", "join", "part", "quit", "kick", "action", "other", "factoid"}

Chat(time, target, permissions, channel) ==
    Body("ok", time, "message", target, None, permissions, channel, "text")

Command(command, permissions, channel) ==
    Body("ok", Fresh, "command", "absent", command, permissions, channel, "nick")

\* Malformed payloads, and chat messages one second older than, exactly as
\* old as and one second younger than the staleness threshold.
MalformedOrTimed ==
    {Body(json, NoTime("absent"), None, "absent", None, PermNull, None, None) :
         json \in {"unparseable", "no_event"}}
    \cup {Chat(t, "nick", PermModes({"v"}), "#help") :
             t \in {NoTime("absent"), NoTime("null"), NoTime("garbage"),
                    Time(Now - StaleSeconds - 1), Time(Now - StaleSeconds),
                    Fresh}}

\* Every display type, with a target, without one and with the
\* factoid_request sentinel, from mapped channels and from an unmapped one.
Displayed ==
    {Body("ok", Fresh, type, "nick", None, PermModes({"o"}), "#dev", "text") :
         type \in DisplayTypes}
    \cup {Chat(Fresh, target, PermModes({}), "#help") :
             target \in {"absent", "factoid_request"}}
    \cup {Body("ok", Fresh, type, "factoid_request", None, PermModes({}),
               "#help", "text") : type \in DisplayTypes}
    \cup {Chat(Fresh, "nick", PermModes({}), "#other")}

\* Commands under each form of author.permissions, each moderation command
\* and one that is none, from mapped channels and from an unmapped one.
Commands ==
    {Command("kick", p, "#help") :
         p \in {PermModes({"o"}), PermModes({"v"}), PermNull,
                PermSnapshot(FALSE, FALSE, FALSE),
                PermSnapshot(TRUE, FALSE, FALSE),
                PermSnapshot(FALSE, FALSE, TRUE)}}
    \cup {Command(c, PermModes({"o", "v"}), "#dev") : c \in {"ban", "unban", "whois"}}
    \cup {Command("kick", PermModes({"o"}), "#other")}

\* One payload of each kind, with responses and a type outside the
\* enumerated set.
Mixed ==
    {Body("unparseable", NoTime("absent"), None, "absent", None, PermNull, None, None),
     Chat(NoTime("absent"), "nick", PermModes({"v"}), "#help"),
     Chat(Time(Now - StaleSeconds - 1), "nick", PermModes({"v"}), "#help"),
     Chat(Fresh, "nick", PermModes({"v"}), "#help"),
     Command("kick", PermModes({"o"}), "#help"),
     Command("kick", PermSnapshot(FALSE, FALSE, FALSE), "#help"),
     Body("ok", Fresh, "unknown", "absent", None, PermNull, "#help", "text")}
    \cup {Body("ok", Fresh, "response", "absent", None, PermNull, "#help", c) :
             c \in {"empty", "whois", "other"}}

\* What the peer publishes on the inbound topic in one behaviour: one of
\* these mixes.
Topics == {"malformed or timed", "displayed", "commands", "mixed"}

Payloads(mix) ==
    CASE mix = "malformed or timed" -> MalformedOrTimed
      [] mix = "displayed" -> Displayed
      [] mix = "commands" -> Commands
      [] mix = "mixed" -> Mixed
      [] OTHER -> {}

\* What the adapters answer while one response is handled:
\* bot.get_channel(id) finds the channel, get_guild_from_channel_id finds
\* the guild, get_member_named finds the target, the guild's kick/ban/unban
\* raises, bot.get_user finds the requester.
Answers ==
    [channel : BOOLEAN, guild : BOOLEAN, member : BOOLEAN,
     action_raises : BOOLEAN, user : BOOLEAN]

\* What a piece of handle_event did: the log lines written, the messages
\* sent (to a channel id, or "dm"), the moderation calls made on the guild,
\* and the exception that left it ("none" if it returned); lookups are the
\* resolutions command processing asked of the adapters, in order, each
\* with its answer, and failed the moderation calls in which the adapter
\* raised.
Did(logs, sends, calls, raised) ==
    [logs |-> logs, sends |-> sends, calls |-> calls, raised |-> raised,
     lookups |-> <<>>, failed |-> <<>>]

Lookup(what, found) == [what |-> what, found |-> found]

After(lookups, did) == [did EXCEPT !.lookups = lookups]

Sent(to, text) == [to |-> to, text |-> text]

\* A slip in the comparison: >= in place of >.
_time_stale_inclusive(time, stale_seconds) ==
    (Now - time) >= stale_seconds

\* _time_stale(time), for a time strptime parsed.
_time_stale(time, stale_seconds) ==
    (Now - time) > stale_seconds

\* deserialize(body): [returns, logs, raised]; returns is None where the
\* code returns None and "data" where it returns the deserialized body, and
\* raised names the exception where one leaves it
\* (Munch raises AttributeError for a missing key, strptime ValueError for
\* a string in another format).
deserialize(body, stale_seconds) ==
    IF body.json = "unparseable"
    THEN [returns |-> None, raised |-> "none",
          logs |-> <<"Unable to Munch-deserialize incoming data", "Full body">>]
    ELSE IF body.json = "no_event" \/ body.time.form = "absent"
    THEN [returns |-> None, raised |-> "AttributeError", logs |-> <<>>]
    ELSE IF body.time.form = "null"
    THEN [returns |-> None, raised |-> "none",
          logs |-> <<"Unable to retrieve time object from incoming data">>]
    ELSE IF body.time.form = "garbage"
    THEN [returns |-> None, raised |-> "ValueError", logs |-> <<>>]
    ELSE IF _time_stale(body.time.secs, stale_seconds)
    THEN [returns |-> None, raised |-> "none",
          logs |-> <<"Incoming data failed stale check">>]
    ELSE [returns |-> "data", raised |-> "none", logs |-> <<"Deserialized data">>]

\* process_message(data): the line of the type's template; every template
\* starts with the logo, so the line is never empty.
process_message(data) ==
    IF data.type = "message" THEN "chat line" ELSE "event line"

\* A slip in the gate: every author passes.
_data_has_op_always(data) == TRUE

\* _data_has_op(data): "o" in data.author.permissions
_data_has_op(data) == "o" \in data.permissions.members

\* _get_channel(data): the channel the map pairs with channel.name, if the
\* bot finds it.
_get_channel(data, answers) ==
    IF /\ data.channel \in DOMAIN channel_map
       /\ channel_map[data.channel] \in channels
       /\ answers.channel
    THEN channel_map[data.channel]
    ELSE None

\* A slip in the dispatch: every moderation command ends in guild.kick.
_try_action_always_kick(data, answers) ==
    IF data.command \in {"kick", "ban", "unban"}
    THEN IF answers.action_raises
         THEN [Did(<<"Unable to send command">>, <<>>, <<"kick">>, "none")
                  EXCEPT !.failed = <<"kick">>]
         ELSE Did(<<>>, <<>>, <<"kick">>, "none")
    ELSE Did(<<>>, <<>>, <<>>, "none")

\* A slip in the try block: no except clause, the adapter's exception leaves
\* _process_user_command.
_try_action_uncaught(data, answers) ==
    IF data.command \in {"kick", "ban", "unban"}
    THEN IF answers.action_raises
         THEN [Did(<<>>, <<>>, <<data.command>>, "Exception")
                  EXCEPT !.failed = <<data.command>>]
         ELSE Did(<<>>, <<>>, <<data.command>>, "none")
    ELSE Did(<<>>, <<>>, <<>>, "none")

\* The try block of _process_user_command: the guild call event.command
\* names; whatever it raises is caught and logged.
_try_action(data, answers) ==
    IF data.command \in {"kick", "ban", "unban"}
    THEN IF answers.action_raises
         THEN [Did(<<"Unable to send command">>, <<>>, <<data.command>>, "none")
                  EXCEPT !.failed = <<data.command>>]
         ELSE Did(<<>>, <<>>, <<data.command>>, "none")
    ELSE Did(<<>>, <<>>, <<>>, "none")

\* A slip in the order of the steps: the channel is resolved, and the notice
\* sent, before the author's privilege is looked at.
_process_user_command_resolves_first(data, answers) ==
    LET channel == _get_channel(data, answers)
        notice  == <<Sent(channel, "Executing IRC command")>>
        chan    == Lookup("channel", channel # None)
        guild   == Lookup("guild", answers.guild)
        member  == Lookup("member", answers.member)
    IN  IF channel = None
        THEN After(<<chan>>,
                   Did(<<"Unable to find channel to send command alert">>,
                       <<>>, <<>>, "none"))
        ELSE IF data.permissions.form = "null"
        THEN After(<<chan>>, Did(<<>>, notice, <<>>, "TypeError"))
        ELSE IF ~_data_has_op(data)
        THEN After(<<chan>>,
                   Did(<<"Blocking incoming request due to permissions">>,
                       notice, <<>>, "none"))
        ELSE IF ~answers.guild
        THEN After(<<chan, guild>>,
                   Did(<<"Unable to find guild associated with relay channel">>,
                       notice \o <<Sent(channel, "Critical error! Aborting command")>>,
                       <<>>, "none"))
        ELSE IF ~answers.member
        THEN After(<<chan, guild, member>>,
                   Did(<<>>,
                       notice \o <<Sent(channel, "Unable to locate target")>>,
                       <<>>, "none"))
        ELSE After(<<chan, guild, member>>,
                   [_try_action(data, answers) EXCEPT !.sends = notice])

\* A slip in the target resolution: a member that was not found is passed on
\* to the guild call.
_process_user_command_unchecked_target(data, answers) ==
    LET channel == _get_channel(data, answers)
        notice  == <<Sent(channel, "Executing IRC command")>>
        chan    == Lookup("channel", channel # None)
        guild   == Lookup("guild", answers.guild)
        member  == Lookup("member", answers.member)
    IN  IF data.permissions.form = "null"
        THEN Did(<<>>, <<>>, <<>>, "TypeError")
        ELSE IF ~_data_has_op(data)
        THEN Did(<<"Blocking incoming request due to permissions">>,
                 <<>>, <<>>, "none")
        ELSE IF channel = None
        THEN After(<<chan>>,
                   Did(<<"Unable to find channel to send command alert">>,
                       <<>>, <<>>, "none"))
        ELSE IF ~answers.guild
        THEN After(<<chan, guild>>,
                   Did(<<"Unable to find guild associated with relay channel">>,
                       notice \o <<Sent(channel, "Critical error! Aborting command")>>,
                       <<>>, "none"))
        ELSE After(<<chan, guild, member>>,
                   [_try_action(data, answers) EXCEPT !.sends = notice])

\* _process_user_command(data); `"o" not in None` raises TypeError.
_process_user_command(data, answers) ==
    LET channel == _get_channel(data, answers)
        notice  == <<Sent(channel, "Executing IRC command")>>
        chan    == Lookup("channel", channel # None)
        guild   == Lookup("guild", answers.guild)
        member  == Lookup("member", answers.member)
    IN  IF data.permissions.form = "null"
        THEN Did(<<>>, <<>>, <<>>, "TypeError")
        ELSE IF ~_data_has_op(data)
        THEN Did(<<"Blocking incoming request due to permissions">>,
                 <<>>, <<>>, "none")
        ELSE IF channel = None
        THEN After(<<chan>>,
                   Did(<<"Unable to find channel to send command alert">>,
                       <<>>, <<>>, "none"))
        ELSE IF ~answers.guild
        THEN After(<<chan, guild>>,
                   Did(<<"Unable to find guild associated with relay channel">>,
                       notice \o <<Sent(channel, "Critical error! Aborting command")>>,
                       <<>>, "none"))
        ELSE IF ~answers.member
        THEN After(<<chan, guild, member>>,
                   Did(<<>>,
                       notice \o <<Sent(channel, "Unable to locate target")>>,
                       <<>>, "none"))
        ELSE After(<<chan, guild, member>>,
                   [_try_action(data, answers) EXCEPT !.sends = notice])

\* A slip in the gate: the commands_allowed toggle is not read.
process_command_ungated(data, commands_allowed, answers) ==
    IF data.command \in {"kick", "ban", "unban"}
    THEN _process_user_command(data, answers)
    ELSE Did(<<"Received unroutable command">>, <<>>, <<>>, "none")

\* process_command(data)
process_command(data, commands_allowed, answers) ==
    IF ~commands_allowed
    THEN Did(<<"Blocking incoming request due to disabled config">>,
             <<>>, <<>>, "none")
    ELSE IF data.command \in {"kick", "ban", "unban"}
    THEN _process_user_command(data, answers)
    ELSE Did(<<"Received unroutable command">>, <<>>, <<>>, "none")

\* process_response(data) and _process_whois_response(data)
process_response(data, answers) ==
    IF data.content = "empty"
    THEN Did(<<"Received empty response">>, <<>>, <<>>, "none")
    ELSE IF data.content = "whois"
    THEN IF ~answers.user
         THEN Did(<<"Unable to find user associated with response">>,
                  <<>>, <<>>, "none")
         ELSE Did(<<>>, <<Sent("dm", "WHOIS Response")>>, <<>>, "none")
    ELSE Did(<<>>, <<>>, <<>>, "none")

\* A slip in the router: the sentinel is not looked for.
_is_factoid_request_never(data) == FALSE

\* The echo-loop sentinel: data.event.target == "factoid_request"
_is_factoid_request(data) == data.target = "factoid_request"

\* handle_event(response): what it did with one response resp, and the branch
\* of the router it took ("none" when deserialize gave no data).
handle_event(resp, cfg, answers) ==
    LET got  == deserialize(resp, cfg.stale_seconds)
        data == resp
        With(route, did) ==
            [body |-> resp, route |-> route,
             logs |-> got.logs \o did.logs, sends |-> did.sends,
             calls |-> did.calls, raised |-> did.raised,
             lookups |-> did.lookups, failed |-> did.failed]
    IN  IF got.raised # "none"
        THEN With("none", Did(<<>>, <<>>, <<>>, got.raised))
        ELSE IF got.returns = None
        THEN With("none", Did(<<"Unable to deserialize data! Aborting!">>,
                              <<>>, <<>>, "none"))
        ELSE IF data.type \in DisplayTypes
        THEN IF data.target = "absent"
             THEN With("display", Did(<<>>, <<>>, <<>>, "AttributeError"))
             ELSE IF _is_factoid_request(data)
             THEN With("display", Did(<<"Ignoring factoid request event">>,
                                      <<>>, <<>>, "none"))
             ELSE IF _get_channel(data, answers) = None
             THEN With("display",
                       Did(<<"Unable to find channel to send command alert">>,
                           <<>>, <<>>, "none"))
             ELSE With("display",
                       Did(<<>>, <<Sent(_get_channel(data, answers),
                                        process_message(data))>>,
                           <<>>, "none"))
        ELSE IF data.type = "command"
        THEN With("command", process_command(data, cfg.commands_allowed, answers))
        ELSE IF data.type = "response"
        THEN With("response", process_response(data, answers))
        ELSE With("unroutable", Did(<<"Unable to handle event">>,
                                    <<>>, <<>>, "none"))

\* A consume() that hands over what it had fetched when the poll failed.
consume_keeps_batch(reachable, batch) ==
    [responses |-> batch, error |-> ~reachable]

\* MqPlugin.consume(): the list of payloads the broker had, and
\* mq_error_state telling whether the poll failed (then the list is empty).
consume(reachable, batch) ==
    [responses |-> IF reachable THEN batch ELSE <<>>, error |-> ~reachable]

\* The lists consume() may return: up to MaxBatch payloads of the topic, in
\* any order, a payload possibly more than once (the broker delivers at
\* least once).
Batches(payloads) == UNION {[1..n -> payloads] : n \in 0..MaxBatch}

\* A slip in the comparison: <= in place of <.
_alert_due_offByOne(error, notice_errors, count) ==
    error /\ notice_errors /\ count <= AlertLimit

\* The condition of the error notice:
\* self.mq_error_state and self.config.notice_errors and self.error_count < 5
_alert_due(error, notice_errors, count) ==
    error /\ notice_errors /\ count < AlertLimit

\* execute(), up to the first iteration of `for response in responses`.
IRCReceiver_execute ==
    /\ receiver_pc = "idle"
    /\ \E reachable \in BOOLEAN, batch \in Batches(Payloads(topic)), channelFound \in BOOLEAN :
          LET polled == consume(reachable, batch)
          IN  /\ receiver_mq_error_state' = polled.error
              /\ responses' = polled.responses
              /\ handled' = <<>>
              /\ IF _alert_due(polled.error, config.notice_errors, error_count)
                 THEN IF channelFound
                      THEN /\ tick_alerted' = TRUE
                           /\ error_count' = error_count + 1
                           /\ receiver_alerts' = receiver_alerts + 1
                           /\ tick_raised' = "none"
                           /\ receiver_pc' = "done"
                      ELSE \* channel is None: channel.send raises
                           /\ tick_alerted' = FALSE
                           /\ tick_raised' = "AttributeError"
                           /\ receiver_pc' = "raised"
                           /\ UNCHANGED <<error_count, receiver_alerts>>
                 ELSE /\ tick_alerted' = FALSE
                      /\ tick_raised' = "none"
                      /\ receiver_pc' = IF polled.responses = <<>> THEN "done"
                                                                   ELSE "loop"
                      /\ UNCHANGED <<error_count, receiver_alerts>>
    /\ UNCHANGED <<config, side_vars, topic, relay_vars>>

\* A receiver that remembers what it handled: a response equal to an earlier
\* one of the tick is dropped without being passed to handle_event.
IRCReceiver_handle_event_dedup ==
    /\ receiver_pc = "loop"
    /\ LET resp == responses[Len(handled) + 1]
           seen == \E k \in 1..Len(handled) : responses[k] = resp
       IN  \E did \in IF seen
                      THEN {[body |-> resp, route |-> "none",
                             logs |-> <<"Duplicate">>, sends |-> <<>>,
                             calls |-> <<>>, raised |-> "none",
                             lookups |-> <<>>, failed |-> <<>>]}
                      ELSE {handle_event(resp, config, answers) :
                               answers \in Answers} :
              /\ handled' = Append(handled, did)
              /\ tick_raised' = did.raised
              /\ receiver_pc' = IF did.raised # "none" THEN "raised"
                                ELSE IF Len(handled) + 1 = Len(responses) THEN "done"
                                ELSE "loop"
    /\ UNCHANGED <<config, side_vars, topic, relay_vars, error_count, receiver_alerts,
                   receiver_mq_error_state, responses, tick_alerted>>

\* One iteration of `for response in responses: await self.handle_event(...)`.
\* An exception handle_event raises leaves execute(): the responses after it
\* are not handled.
IRCReceiver_handle_event ==
    /\ receiver_pc = "loop"
    /\ \E did \in {handle_event(responses[Len(handled) + 1], config, answers) :
                      answers \in Answers} :
          /\ handled' = Append(handled, did)
          /\ tick_raised' = did.raised
          /\ receiver_pc' = IF did.raised # "none" THEN "raised"
                            ELSE IF Len(handled) + 1 = Len(responses) THEN "done"
                            ELSE "loop"
    /\ UNCHANGED <<config, side_vars, topic, relay_vars, error_count, receiver_alerts,
                   receiver_mq_error_state, responses, tick_alerted>>

\* LoopPlugin: the tick is over; the loop sleeps consume_seconds and calls
\* execute() again.
IRCReceiver_wait ==
    /\ receiver_pc \in {"done", "raised"}
    /\ receiver_pc' = "idle"
    /\ responses' = <<>>
    /\ handled' = <<>>
    /\ tick_raised' = "none"
    /\ tick_alerted' = FALSE
    /\ UNCHANGED <<config, side_vars, topic, relay_vars, error_count, receiver_alerts,
                   receiver_mq_error_state>>

\* The Consumer side: both cogs constructed, every notice_errors and
\* commands_allowed; the Publisher Loop and the producers left aside.
ReceiverInit ==
    /\ config \in [send_limit : {1},
                   notice_errors : BOOLEAN,
                   commands_allowed : BOOLEAN,
                   stale_seconds : {StaleSeconds}]
    /\ topic \in Topics
    /\ RelayStart
    /\ ReceiverStart
    /\ SideStart

ReceiverNext ==
    \/ IRCReceiver_execute
    \/ IRCReceiver_handle_event
    \/ IRCReceiver_wait

ReceiverSpec == ReceiverInit /\ [][ReceiverNext]_vars

\* ------------------------------------------- claims on the Publisher Loop
Min(a, b) == IF a < b THEN a ELSE b

IdsOf(xs) == {xs[i].id : i \in 1..Len(xs)}

\* C1: a Publisher tick whose publish attempt failed removes nothing: the
\* buffer is the buffer the tick started with, followed by what producers
\* appended since, whatever send_limit and notice_errors are.
C1_FailedTickRemovesNothing ==
    tick_outcome = "fail" => send_buffer = tick_pre \o tick_new

\* C2: a Publisher tick whose publish succeeded published exactly the first
\* min(send_limit, length) entries of the buffer, in buffer order, and
\* removed exactly those, leaving the rest in their order (followed by what
\* producers appended since).
C2_SuccessfulTickDrainsPrefix ==
    tick_outcome = "ok" =>
        LET n == Min(config.send_limit, Len(tick_pre))
        IN  /\ n >= 1
            /\ tick_bodies = SubSeq(tick_pre, 1, n)
            /\ Len(broker_log) >= n
            /\ SubSeq(broker_log, Len(broker_log) - n + 1, Len(broker_log))
                   = tick_bodies
            /\ send_buffer = SubSeq(tick_pre, n + 1, Len(tick_pre)) \o tick_new

\* C2's case: [A,B,C,D] with send_limit = 2 became [C,D].
C2_Witness ==
    /\ tick_outcome = "ok"
    /\ config.send_limit = 2
    /\ Len(tick_pre) = 4
    /\ send_buffer = SubSeq(tick_pre, 3, 4)
    /\ IdsOf(tick_bodies) = {1, 2}

\* C3 (its safety half): no appended envelope leaves the buffer without
\* having been in a successful publish: every envelope ever appended is
\* still in the buffer or was accepted by the broker.
C3_NoEnvelopeLeavesUnpublished ==
    \A id \in 1..(next_id - 1) :
        id \in IdsOf(send_buffer) \/ id \in IdsOf(broker_log)

\* C4: appends interleaved with a tick (also at its await) neither drop nor
\* duplicate an entry: the buffer is the pre-tick buffer minus the
\* successfully published prefix, if any, followed by the entries appended
\* since the tick started, and holds no entry twice.
C4_TickAndAppendsAtomic ==
    tick_outcome # "none" =>
        /\ send_buffer =
              Drop(tick_pre, IF tick_outcome = "ok" THEN Len(tick_bodies) ELSE 0)
                  \o tick_new
        /\ Cardinality(IdsOf(send_buffer)) = Len(send_buffer)

\* C5: publish order equals append order: an envelope is in a successful
\* batch only if every envelope appended before it is earlier in that batch
\* or was in an earlier successful batch.
C5_PublishOrderIsAppendOrder ==
    \A j \in 1..Len(broker_log) :
        \A x \in 1..(broker_log[j].id - 1) :
            \E i \in 1..(j - 1) : broker_log[i].id = x

\* ------------------------------------------- claims on the Consumer Loop
\* The age of a payload's event.time when the tick consumes it, in seconds.
Age(body) == Now - body.time.secs

\* The payload parses and carries an event.time in the fixed format.
WellFormed(body) == body.json = "ok" /\ body.time.form = "ok"

Handled == 1..Len(handled)

HasLog(did, line) == \E k \in 1..Len(did.logs) : did.logs[k] = line

\* C6: an envelope is rejected by deserialize exactly when its age is
\* greater than stale_seconds; a rejected one reaches no formatter and no
\* dispatcher (nothing is sent, no adapter is called), and one whose age is
\* at most stale_seconds is passed to the router.
C6_StaleExactlyWhenOlder ==
    \A i \in Handled :
        LET body == responses[i]
            did  == handled[i]
        IN  WellFormed(body) =>
               /\ HasLog(did, "Incoming data failed stale check")
                      <=> Age(body) > config.stale_seconds
               /\ Age(body) > config.stale_seconds =>
                      /\ did.route = "none"
                      /\ did.sends = <<>>
                      /\ did.calls = <<>>
               /\ Age(body) <= config.stale_seconds =>
                      did.route \in {"display", "command", "response", "unroutable"}

\* C6's case: one tick dropped an envelope one second older than the
\* threshold and delivered one that is one second younger.
C6_Witness ==
    /\ Len(handled) = 2
    /\ Age(responses[1]) = config.stale_seconds + 1
    /\ handled[1].route = "none"
    /\ Age(responses[2]) = config.stale_seconds - 1
    /\ handled[2].route = "display"
    /\ Len(handled[2].sends) = 1

\* C7: no tick ends with an unhandled error.  (A Publisher tick has no
\* raising path in the model; the Consumer tick records the exception that
\* left execute().)
C7_NoTickRaises ==
    tick_raised = "none" /\ receiver_pc # "raised"

\* C8: deserialize reports every malformed payload with a failure value,
\* never by raising: handle_event logs and drops it.
C8_MalformedYieldsFailureValue ==
    \A i \in Handled :
        ~WellFormed(responses[i]) =>
            /\ handled[i].raised = "none"
            /\ handled[i].route = "none"
            /\ HasLog(handled[i], "Unable to deserialize data! Aborting!")

\* The kinds of message C9 speaks of: dropped as malformed, stale,
\* unroutable, without a mapped channel or as a failed command, or
\* dispatched; a display event carries its target and a command its
\* permissions.
OfClaimedKind(body) ==
    WellFormed(body) =>
        /\ body.type \in DisplayTypes => body.target # "absent"
        /\ body.type = "command" => body.permissions.form # "null"

\* C9: once a Consumer tick is over, every message of the poll was handled,
\* in broker order: a dropped message stopped no later one.
C9_EveryPolledMessageHandled ==
    (/\ receiver_pc \in {"done", "raised"}
     /\ \A i \in 1..Len(responses) : OfClaimedKind(responses[i]))
        => /\ Len(handled) = Len(responses)
           /\ \A i \in Handled : handled[i].body = responses[i]

\* C10: a command envelope whose author.permissions lacks the privilege
\* (admin false, kick false, no operator marker) is discarded with a log
\* only: no channel message and no adapter call.
C10_UnprivilegedCommandDiscarded ==
    \A i \in Handled :
        LET body == responses[i]
            did  == handled[i]
        IN  (/\ WellFormed(body)
             /\ Age(body) <= config.stale_seconds
             /\ body.type = "command"
             /\ body.permissions.form # "null"
             /\ ~body.permissions.admin
             /\ ~body.permissions.kick
             /\ "o" \notin body.permissions.members)
                => /\ did.sends = <<>>
                   /\ did.calls = <<>>
                   /\ did.raised = "none"
                   /\ Len(did.logs) >= 2

\* C10's case: with commands allowed, a kick from an author whose snapshot
\* has admin = false and kick = false was blocked by the gate.
C10_Witness ==
    \E i \in Handled :
        /\ config.commands_allowed
        /\ responses[i] = Command("kick", PermSnapshot(FALSE, FALSE, FALSE), "#help")
        /\ HasLog(handled[i], "Blocking incoming request due to permissions")
        /\ handled[i].sends = <<>>

\* A fresh command envelope of the moderation dispatcher: kick, ban or unban.
IsModeration(body) ==
    /\ WellFormed(body)
    /\ Age(body) <= config.stale_seconds
    /\ body.type = "command"
    /\ body.command \in {"kick", "ban", "unban"}

\* C11: with commands allowed, a kick, ban or unban whose author.permissions
\* snapshot has the matching boolean true, or admin true, passes the
\* authorization check and goes on to channel resolution.
C11_PrivilegedSnapshotPasses ==
    \A i \in Handled :
        LET body == responses[i]
            did  == handled[i]
        IN  (/\ config.commands_allowed
             /\ IsModeration(body)
             /\ body.permissions.form = "snapshot"
             /\ body.permissions[body.command] \/ body.permissions.admin)
                => /\ ~HasLog(did, "Blocking incoming request due to permissions")
                   /\ did.lookups # <<>>
                   /\ did.lookups[1].what = "channel"

\* The resolutions of command processing, in the order the code asks them.
Resolutions == <<"channel", "guild", "member">>

\* C12: a moderation action is invoked only after, in this order, commands
\* are allowed, the author passed the authorization check, and the channel,
\* the guild and the member were resolved; a step that fails is the last one
\* executed for that envelope.
C12_ActionOnlyAfterEveryStep ==
    \A i \in Handled :
        LET body == responses[i]
            did  == handled[i]
            n    == Len(did.lookups)
        IN  body.type = "command" =>
               /\ n <= Len(Resolutions)
               /\ \A k \in 1..n :
                     /\ did.lookups[k].what = Resolutions[k]
                     /\ k < n => did.lookups[k].found
               /\ did.calls # <<>> =>
                     /\ config.commands_allowed
                     /\ "o" \in body.permissions.members
                     /\ n = Len(Resolutions)
                     /\ \A k \in 1..n : did.lookups[k].found
               /\ (~config.commands_allowed \/ "o" \notin body.permissions.members)
                     => /\ did.lookups = <<>>
                        /\ did.sends = <<>>
                        /\ did.calls = <<>>
               /\ (\E k \in 1..n : ~did.lookups[k].found) => did.calls = <<>>

\* C12's case: one tick stopped a command at the guild resolution, after
\* the channel resolved, and took another through every step to the action.
C12_Witness ==
    \E i \in Handled, j \in Handled :
        /\ handled[i].lookups = <<Lookup("channel", TRUE), Lookup("guild", FALSE)>>
        /\ handled[i].calls = <<>>
        /\ Len(handled[j].lookups) = 3
        /\ handled[j].calls = <<"kick">>

\* A fresh command envelope: deserialize passes it to the router.
IsCommand(body) ==
    /\ WellFormed(body)
    /\ Age(body) <= config.stale_seconds
    /\ body.type = "command"

\* The envelope went through every step of the gate: the three resolutions
\* were asked and each succeeded.
ReachedAction(did) ==
    /\ Len(did.lookups) = Len(Resolutions)
    /\ \A k \in 1..Len(did.lookups) : did.lookups[k].found

\* C13: a command envelope that reaches action execution makes exactly one
\* adapter call, the one event.command names, and no envelope makes more
\* than one; a command other than kick, ban and unban makes no adapter call
\* and sends no channel message, and the dispatcher logs it as unroutable.
C13_ExactlyTheNamedAction ==
    \A i \in Handled :
        LET body == responses[i]
            did  == handled[i]
        IN  IsCommand(body) =>
               /\ Len(did.calls) <= 1
               /\ ReachedAction(did) => did.calls = <<body.command>>
               /\ did.calls # <<>> =>
                     /\ did.calls = <<body.command>>
                     /\ body.command \in {"kick", "ban", "unban"}
                     /\ ReachedAction(did)
               /\ body.command \notin {"kick", "ban", "unban"} =>
                     /\ did.calls = <<>>
                     /\ did.sends = <<>>
                     /\ did.raised = "none"
                     /\ config.commands_allowed
                           => HasLog(did, "Received unroutable command")

\* C13's case: one tick banned the target of a ban command and dropped a
\* whois command as unroutable.
C13_Witness ==
    \E i \in Handled, j \in Handled :
        /\ responses[i].command = "ban"
        /\ handled[i].calls = <<"ban">>
        /\ responses[j].command = "whois"
        /\ HasLog(handled[j], "Received unroutable command")
        /\ handled[j].sends = <<>>

\* C14: while commands_allowed is false, every command envelope, whatever
\* its command, its author's permissions and its target, is discarded with
\* a log line only: nothing is resolved, no channel message is sent, no
\* adapter is called and nothing is raised.
C14_DisabledCommandsDiscarded ==
    \A i \in Handled :
        LET body == responses[i]
            did  == handled[i]
        IN  (IsCommand(body) /\ ~config.commands_allowed) =>
               /\ did.route = "command"
               /\ HasLog(did, "Blocking incoming request due to disabled config")
               /\ did.lookups = <<>>
               /\ did.sends = <<>>
               /\ did.calls = <<>>
               /\ did.raised = "none"

\* C14's case: with commands disabled, a kick from an operator on a mapped
\* channel was discarded.
C14_Witness ==
    \E i \in Handled :
        /\ ~config.commands_allowed
        /\ responses[i] = Command("kick", PermModes({"o"}), "#help")
        /\ HasLog(handled[i], "Blocking incoming request due to disabled config")
        /\ handled[i].calls = <<>>

\* The resolution that failed for an envelope, or "none".
FailedAt(did) ==
    IF did.lookups # <<>> /\ ~did.lookups[Len(did.lookups)].found
    THEN did.lookups[Len(did.lookups)].what
    ELSE "none"

LastSent(did) == did.sends[Len(did.sends)].text

\* C15: when the guild of an authorised command cannot be resolved, the
\* last message the channel receives for it is the critical-abort notice,
\* and when the target member cannot be resolved, the target-not-found
\* notice; in both cases no moderation action is invoked.  The outcome is
\* final: while the tick runs, the envelopes it was given and the outcomes
\* already recorded do not change, nothing is handled twice, and the end of
\* the tick keeps none of them for a later tick.
C15_ResolutionFailureReportedAndFinal ==
    /\ [](\A i \in Handled :
             LET did == handled[i]
             IN  /\ FailedAt(did) = "guild" =>
                       /\ did.sends # <<>>
                       /\ LastSent(did) = "Critical error! Aborting command"
                       /\ did.sends[Len(did.sends)].to = channel_map[responses[i].channel]
                       /\ did.calls = <<>>
                       /\ did.raised = "none"
                 /\ FailedAt(did) = "member" =>
                       /\ did.sends # <<>>
                       /\ LastSent(did) = "Unable to locate target"
                       /\ did.sends[Len(did.sends)].to = channel_map[responses[i].channel]
                       /\ did.calls = <<>>
                       /\ did.raised = "none")
    /\ [][receiver_pc # "idle" =>
             /\ responses' \in {responses, <<>>}
             /\ \/ handled' = <<>> /\ responses' = <<>>
                \/ /\ Len(handled') <= Len(handled) + 1
                   /\ SubSeq(handled', 1, Len(handled)) = handled]_vars

\* C15's case: one tick reported an unresolved guild for one command and an
\* unresolved member for another, and called no adapter for either.
C15_Witness ==
    \E i \in Handled, j \in Handled :
        /\ FailedAt(handled[i]) = "guild"
        /\ FailedAt(handled[j]) = "member"
        /\ handled[i].calls = <<>>
        /\ handled[j].calls = <<>>
        /\ receiver_pc = "done"

\* C16: an exception the adapter raises in kick, ban or unban is caught in
\* command processing: handle_event returns normally with the failure
\* logged, the call was made once and not again, and the tick goes on to
\* the messages after it.
C16_AdapterExceptionContained ==
    \A i \in Handled :
        LET did == handled[i]
        IN  did.failed # <<>> =>
               /\ did.raised = "none"
               /\ HasLog(did, "Unable to send command")
               /\ did.calls = did.failed
               /\ did.calls = <<responses[i].command>>
               /\ (i = Len(handled) /\ i < Len(responses)) => receiver_pc = "loop"

\* C16's case: the adapter raised in the kick of the first message of a
\* tick, and the tick handled the message after it.
C16_Witness ==
    /\ Len(responses) = 2
    /\ Len(handled) = 2
    /\ handled[1].failed = <<"kick">>
    /\ handled[1].raised = "none"
    /\ receiver_pc = "done"

\* C17: the receiver does not deduplicate.  An envelope equal to one the
\* tick already handled goes the same way as the first: a fresh kick from
\* an operator, with commands allowed, enters the moderation dispatcher
\* again (the channel is resolved anew, and with every resolution
\* succeeding guild.kick is called again), and a fresh message for a mapped
\* channel is sent as a display line again.
C17_NoDeduplication ==
    \A i \in Handled, j \in Handled :
        (i < j /\ responses[i] = responses[j]) =>
            LET body == responses[j]
                did  == handled[j]
            IN  /\ (/\ IsModeration(body)
                    /\ body.command = "kick"
                    /\ config.commands_allowed
                    /\ "o" \in body.permissions.members)
                       => /\ did.route = "command"
                          /\ did.lookups # <<>>
                          /\ ReachedAction(did) => did.calls = <<"kick">>
                /\ (/\ WellFormed(body)
                    /\ Age(body) <= config.stale_seconds
                    /\ body.type = "message"
                    /\ body.target \notin {"absent", "factoid_request"}
                    /\ body.channel \in DOMAIN channel_map)
                       => /\ did.route = "display"
                          /\ \/ Len(did.sends) = 1
                             \/ HasLog(did, "Unable to find channel to send command alert")

\* C17's case: one tick consumed the same kick twice and called guild.kick
\* for each.
C17_Witness ==
    /\ Len(handled) = 2
    /\ responses[1] = responses[2]
    /\ handled[1].calls = <<"kick">>
    /\ handled[2].calls = <<"kick">>

\* C17's other case: one tick consumed the same message twice and sent two
\* display lines to the mapped channel.
C17_WitnessMessage ==
    /\ Len(handled) = 2
    /\ responses[1] = responses[2]
    /\ responses[1].type = "message"
    /\ Len(handled[1].sends) = 1
    /\ handled[2].sends = handled[1].sends

\* C18: with notice_errors, the error notices the Publisher sends during one
\* broker outage stay within a fixed count, however many ticks fail in a
\* row (the count taken here is the one of the Consumer's policy).
C18_PublisherAlertsBounded ==
    relay_alerts <= AlertLimit

\* C19: the Consumer sends at most AlertLimit error notices in a whole
\* execution, each on a tick whose consume failed with notice_errors
\* enabled, and its error_count never exceeds AlertLimit.
C19_ConsumerAlertsBounded ==
    /\ error_count <= AlertLimit
    /\ receiver_alerts <= AlertLimit
    /\ tick_alerted => /\ receiver_mq_error_state
                       /\ config.notice_errors
                       /\ receiver_alerts >= 1

\* C19's case: after AlertLimit notices, a tick whose consume failed with
\* notice_errors enabled ended without sending one.
C19_Witness ==
    /\ receiver_alerts = AlertLimit
    /\ error_count = AlertLimit
    /\ config.notice_errors
    /\ receiver_mq_error_state
    /\ receiver_pc = "done"
    /\ ~tick_alerted

\* C20: an envelope of a display type (message, join, part, quit, kick,
\* action, other, factoid) whose event.target is factoid_request causes no
\* message to any channel, and no adapter call.
C20_FactoidRequestNeverDisplayed ==
    \A i \in Handled :
        LET body == responses[i]
            did  == handled[i]
        IN  (body.type \in DisplayTypes /\ body.target = "factoid_request") =>
               /\ did.sends = <<>>
               /\ did.calls = <<>>

\* C20's case: one tick dropped a fresh factoid_request message for a
\* mapped channel and displayed the message after it.
C20_Witness ==
    /\ Len(handled) = 2
    /\ responses[1] = Chat(Fresh, "factoid_request", PermModes({}), "#help")
    /\ HasLog(handled[1], "Ignoring factoid request event")
    /\ handled[1].sends = <<>>
    /\ Len(handled[2].sends) = 1

\* A fresh envelope of a display type that is not a factoid request.
IsDisplayed(body) ==
    /\ WellFormed(body)
    /\ Age(body) <= config.stale_seconds
    /\ body.type \in DisplayTypes
    /\ body.target # "factoid_request"

\* What C21 asks of one display envelope: one formatted line to the channel
\* the Channel Map pairs with channel.name, or, no mapped channel being
\* found, a log line and nothing sent; in both cases nothing raised.
RoutedOrDropped(body, did) ==
    /\ did.raised = "none"
    /\ did.calls = <<>>
    /\ \/ /\ body.channel \in DOMAIN channel_map
          /\ did.sends = <<Sent(channel_map[body.channel], process_message(body))>>
       \/ /\ did.sends = <<>>
          /\ HasLog(did, "Unable to find channel to send command alert")
    /\ body.channel \notin DOMAIN channel_map => did.sends = <<>>

\* C21: every fresh envelope of a display type whose event.target is not
\* factoid_request, a target being present or not, has exactly one
\* formatted line sent to the channel mapped to channel.name and to no
\* other; when no mapped channel is found nothing is sent and nothing is
\* raised.
C21_DisplayRouting ==
    \A i \in Handled :
        IsDisplayed(responses[i]) => RoutedOrDropped(responses[i], handled[i])

\* C21 for the envelopes that carry an event.target.
C21_DisplayRoutingWithTarget ==
    \A i \in Handled :
        (IsDisplayed(responses[i]) /\ responses[i].target # "absent")
            => RoutedOrDropped(responses[i], handled[i])

\* The enumerated set of event.type: the eight display types, command and
\* response.
EnumeratedTypes ==
    {"message", "join", "part", "quit", "kick", "action", "other", "factoid",
     "command", "response"}

\* The log lines written at debug level; every other line is a warning.
DebugLines ==
    {"Deserialized data", "Ignoring factoid request event",
     "Blocking incoming request due to disabled config"}

IsWarning(line) == line \notin DebugLines

Warnings(did) == SelectSeq(did.logs, IsWarning)

\* C22: a fresh envelope whose event.type is outside the enumerated set
\* results in exactly one warning log, no adapter call and no channel
\* message, and nothing is raised.
C22_UnroutableTypeLoggedOnce ==
    \A i \in Handled :
        LET body == responses[i]
            did  == handled[i]
        IN  (/\ WellFormed(body)
             /\ Age(body) <= config.stale_seconds
             /\ body.type \notin EnumeratedTypes)
                => /\ did.route = "unroutable"
                   /\ Warnings(did) = <<"Unable to handle event">>
                   /\ did.calls = <<>>
                   /\ did.sends = <<>>
                   /\ did.lookups = <<>>
                   /\ did.raised = "none"

\* C22's case: one tick dropped an envelope of type "unknown" with its
\* warning and handled the message after it.
C22_Witness ==
    /\ Len(handled) = 2
    /\ responses[1].type = "unknown"
    /\ Warnings(handled[1]) = <<"Unable to handle event">>
    /\ handled[1].sends = <<>>
    /\ receiver_pc = "done"

\* -------------------------------------------- serialize, then deserialize
\* The most attachments of one source message.
MaxAttachments == 2

\* Python values of the kinds serialize handles; a str made by strftime
\* carries the time it spells (stamp).
Value(py, val, items, stamp) ==
    [py |-> py, val |-> val, items |-> items, stamp |-> stamp]

Str(text) == Value("str", text, <<>>, NoTime("none"))

IntOf(digits) == Value("int", digits, <<>>, NoTime("none"))

Bool(b) == Value("bool", IF b THEN "True" ELSE "False", <<>>, NoTime("none"))

NoneValue == Value("NoneType", "None", <<>>, NoTime("none"))

List(items) == Value("list", "", items, NoTime("none"))

\* A discord.Role object, as ctx.author.top_role is.
Role(name) == Value("Role", name, <<>>, NoTime("none"))

\* Python's str(): the text of a str, the name of a Role.
str(value) == Str(value.val)

\* datetime.strftime("%Y-%m-%d %H:%M:%S.%f"): the str in the fixed format.
strftime(secs) == Value("str", "", <<>>, Time(secs))

\* A slip in the encoder: numbers are written in quotes.
dumps_quotes_numbers(value) ==
    IF value.py \in {"str", "int"}
    THEN [kind |-> "string", text |-> value.val, items |-> <<>>,
          stamp |-> value.stamp]
    ELSE IF value.py = "bool"
    THEN [kind |-> IF value.val = "True" THEN "true" ELSE "false",
          text |-> "", items |-> <<>>, stamp |-> value.stamp]
    ELSE IF value.py = "NoneType"
    THEN [kind |-> "null", text |-> "", items |-> <<>>, stamp |-> value.stamp]
    ELSE IF value.py = "list"
    THEN [kind |-> "array", text |-> "", items |-> value.items,
          stamp |-> value.stamp]
    ELSE [kind |-> "TypeError", text |-> "", items |-> <<>>,
          stamp |-> value.stamp]

\* json.dumps of one value (Munch.toJSON): a str becomes a JSON string, an
\* int a number, a bool true or false, None null, a list an array; any
\* other object is not serializable.
dumps(value) ==
    IF value.py = "str"
    THEN [kind |-> "string", text |-> value.val, items |-> <<>>,
          stamp |-> value.stamp]
    ELSE IF value.py = "int"
    THEN [kind |-> "number", text |-> value.val, items |-> <<>>,
          stamp |-> value.stamp]
    ELSE IF value.py = "bool"
    THEN [kind |-> IF value.val = "True" THEN "true" ELSE "false",
          text |-> "", items |-> <<>>, stamp |-> value.stamp]
    ELSE IF value.py = "NoneType"
    THEN [kind |-> "null", text |-> "", items |-> <<>>, stamp |-> value.stamp]
    ELSE IF value.py = "list"
    THEN [kind |-> "array", text |-> "", items |-> value.items,
          stamp |-> value.stamp]
    ELSE [kind |-> "TypeError", text |-> "", items |-> <<>>,
          stamp |-> value.stamp]

\* json.loads of one value (Munch.fromJSON).
loads(json) ==
    IF json.kind = "string" THEN Value("str", json.text, <<>>, json.stamp)
    ELSE IF json.kind = "number" THEN IntOf(json.text)
    ELSE IF json.kind = "true" THEN Bool(TRUE)
    ELSE IF json.kind = "false" THEN Bool(FALSE)
    ELSE IF json.kind = "null" THEN NoneValue
    ELSE List(json.items)

\* Munch.toJSON() and Munch.fromJSON(): objects of objects of values.
toJSON(data) ==
    [part \in DOMAIN data |->
        [key \in DOMAIN data[part] |-> dumps(data[part][key])]]

fromJSON(wire) ==
    [part \in DOMAIN wire |->
        [key \in DOMAIN wire[part] |-> loads(wire[part][key])]]

\* serialize(type_, ctx), up to toJSON: the Munch `data` it builds.  uuid is
\* what uuid.uuid4() returned and now the clock.  permissions is
\* data.author.permissions, written here beside author.
serialize_data(type_, ctx, uuid, now) ==
    [event |->
        [id |-> Str(uuid),
         type |-> Str(type_),
         time |-> strftime(now),
         content |-> ctx.content,
         command |-> ctx.irc_command,
         attachments |-> List(ctx.attachments)],
     author |->
        [username |-> ctx.author.name,
         id |-> ctx.author.id,
         nickname |-> ctx.author.display_name,
         discriminator |-> ctx.author.discriminator,
         is_bot |-> ctx.author.bot,
         top_role |-> str(ctx.author.top_role)],
     permissions |->
        [kick |-> ctx.permissions.kick_members,
         ban |-> ctx.permissions.ban_members,
         unban |-> ctx.permissions.ban_members,
         admin |-> ctx.permissions.administrator],
     server |-> [name |-> ctx.guild.name, id |-> ctx.guild.id],
     channel |-> [name |-> ctx.channel.name, id |-> ctx.channel.id]]

\* The source events: with and without content and irc_command (getattr
\* gives None), with up to MaxAttachments attachments, an author with every
\* combination of permissions, in either of two channels.
Urls == {"url-a", "url-b"}

Contexts ==
    [content : {NoneValue, Str("hello")},
     irc_command : {NoneValue, Str("kick")},
     attachments : UNION {[1..n -> Urls] : n \in 0..MaxAttachments},
     author : {[name |-> Str("rick"), id |-> IntOf("1001"),
                display_name |-> Str("Rick"), discriminator |-> Str("0042"),
                bot |-> Bool(FALSE), top_role |-> Role("Moderator")]},
     permissions : [kick_members : {Bool(FALSE), Bool(TRUE)},
                    ban_members : {Bool(FALSE), Bool(TRUE)},
                    administrator : {Bool(FALSE), Bool(TRUE)}],
     guild : {[name |-> Str("Support"), id |-> IntOf("2002")]},
     channel : {[name |-> Str("#help"), id |-> IntOf("3003")],
                [name |-> Str("#other"), id |-> IntOf("3004")]}]

\* The payload the receiver reads from the JSON text: what deserialize and
\* the router look at.  serialize writes no event.target.
BodyOf(wire) ==
    Body("ok",
         wire.event.time.stamp,
         wire.event.type.text,
         "absent",
         IF wire.event.command.kind = "null" THEN None
                                             ELSE wire.event.command.text,
         PermSnapshot(wire.permissions.kick.kind = "true",
                      wire.permissions.ban.kind = "true",
                      wire.permissions.admin.kind = "true"),
         wire.channel.name.text,
         IF wire.event.content.kind = "null" THEN None
                                             ELSE wire.event.content.text)

\* The seconds that pass between serialize and deserialize.
Delays == {0, 1, StaleSeconds - 1, StaleSeconds, StaleSeconds + 1}

\* The enumerated set of event.type (spec section 3).
EventTypes == DisplayTypes \cup {"command", "response"}

\* DiscordRelay.serialize(type_, ctx) on one source event; the envelope
\* will be deserialized `delay` seconds later, when the clock reads Now.
RoundTrip_serialize ==
    /\ rt_pc = "idle"
    /\ \E type_ \in EventTypes, ctx \in Contexts, delay \in Delays :
          LET data == serialize_data(type_, ctx, "uuid-1", Now - delay)
          IN  /\ rt_sent' = data
              /\ rt_wire' = toJSON(data)
              /\ rt_age' = delay
    /\ rt_pc' = "serialized"
    /\ UNCHANGED <<bridge_vars, rules_vars, gate_vars, rt_got, rt_back>>

\* IRCReceiver.deserialize(body) on that JSON text.
RoundTrip_deserialize ==
    /\ rt_pc = "serialized"
    /\ LET got == deserialize(BodyOf(rt_wire), config.stale_seconds)
       IN  /\ rt_got' = got
           /\ rt_back' = IF got.returns = "data" THEN fromJSON(rt_wire)
                                                 ELSE <<>>
    /\ rt_pc' = "delivered"
    /\ UNCHANGED <<bridge_vars, rules_vars, gate_vars,
                   rt_sent, rt_wire, rt_age>>

\* The next event.
RoundTrip_next ==
    /\ rt_pc = "delivered"
    /\ rt_pc' = "idle"
    /\ rt_sent' = <<>>
    /\ rt_wire' = <<>>
    /\ rt_age' = 0
    /\ rt_got' = <<>>
    /\ rt_back' = <<>>
    /\ UNCHANGED <<bridge_vars, rules_vars, gate_vars>>

RoundTripInit ==
    /\ config = [send_limit |-> 1, notice_errors |-> FALSE,
                 commands_allowed |-> TRUE, stale_seconds |-> StaleSeconds]
    /\ topic = "none"
    /\ RelayStart
    /\ ReceiverStart
    /\ SideStart

RoundTripNext ==
    \/ RoundTrip_serialize
    \/ RoundTrip_deserialize
    \/ RoundTrip_next

RoundTripSpec == RoundTripInit /\ [][RoundTripNext]_vars

\* ---------------------------------------------- claims on the round trip
\* The required fields of the data model, by part of the envelope.
RequiredFields ==
    [event |-> {"id", "type", "time", "content", "attachments"},
     author |-> {"username", "id", "nickname", "discriminator"},
     permissions |-> {"kick", "ban", "unban", "admin"},
     server |-> {"name", "id"},
     channel |-> {"name", "id"}]

\* C23: deserializing what serialize returned, within stale_seconds of its
\* creation, succeeds and gives an envelope equal to the serialized one on
\* every required field, for every event type of the enumerated set and
\* every source event.
C23_RoundTrip ==
    (rt_pc = "delivered" /\ rt_age <= config.stale_seconds) =>
        /\ rt_got.raised = "none"
        /\ rt_got.returns = "data"
        /\ \A part \in DOMAIN RequiredFields :
              \A key \in RequiredFields[part] :
                  rt_back[part][key] = rt_sent[part][key]

\* C23's case: a command event with content, two attachments and the kick
\* permission came back equal after exactly stale_seconds.
C23_Witness ==
    /\ rt_pc = "delivered"
    /\ rt_age = config.stale_seconds
    /\ rt_sent.event.type = Str("command")
    /\ Len(rt_sent.event.attachments.items) = 2
    /\ rt_sent.permissions.kick = Bool(TRUE)
    /\ rt_back = rt_sent

\* ------------------------------------------ claims on the irc command
\* C24: a call of the irc command handler appends exactly one command
\* envelope at the tail of the send buffer when commands are allowed, the
\* channel is a relay channel and a command and a target are given (two
\* arguments or more); in every other case it leaves the buffer as it was.
C24_IrcCommandAppendsOneOrNothing ==
    [][\A inRelayChannel \in BOOLEAN, nargs \in 0..2 :
          (irc_command /\ irc_command_on(inRelayChannel, nargs)) =>
              IF config.commands_allowed /\ inRelayChannel /\ nargs >= 2
              THEN /\ Len(send_buffer') = Len(send_buffer) + 1
                   /\ SubSeq(send_buffer', 1, Len(send_buffer)) = send_buffer
                   /\ send_buffer'[Len(send_buffer')].type = "command"
              ELSE send_buffer' = send_buffer]_vars

\* C24's case: with commands allowed, the handler put a command envelope
\* behind a message that was waiting in the buffer.
C24_Witness ==
    /\ config.commands_allowed
    /\ Len(send_buffer) = 2
    /\ send_buffer[1].type = "message"
    /\ send_buffer[2].type = "command"

MaxRules == 2

\* json.dumps(value): the str that spells the value.
json_dumps(doc) == Doc(doc.depth + 1, doc.rules)

\* json.loads(text): the value the str spells.
json_loads(doc) == Doc(doc.depth - 1, doc.rules)

\* munch.munchify(value): a dict becomes a Munch of the same content, a str
\* stays the str.
munchify(doc) == doc

\* The two example rules get_guild_rules writes for a guild without rules.
DefaultRules ==
    <<"No spamming! (this is an example rule)",
      "Keep it friendly! (this is an example rule)">>

Descriptions == {"Be kind", "No ads"}

\* The "rules" lists of the rules objects given to write_new_rules.
RuleLists ==
    UNION {[1..n -> Descriptions] : n \in 0..MaxRules} \cup {DefaultRules}

\* write_new_rules(guild, rules): the table after it.  The create path
\* applies json.dumps to the result of json.dumps; the update path applies
\* it once.
write_new_rules(db, guild, rules) ==
    IF ~db[guild].stored
    THEN LET rules_data == json_dumps(rules)
         IN  [db EXCEPT ![guild] = [stored |-> TRUE, doc |-> json_dumps(rules_data)]]
    ELSE [db EXCEPT ![guild] = [stored |-> TRUE, doc |-> json_dumps(rules)]]

\* get_guild_rules(guild): what it returns, and the table after it.
get_guild_rules(db, guild) ==
    IF ~db[guild].stored
    THEN LET rules_data == json_dumps(Doc(0, DefaultRules))
             new_rules  == munchify(json_loads(rules_data))
         IN  [returned |-> munchify(json_loads(rules_data)),
              db |-> write_new_rules(db, guild, new_rules),
              wrote |-> TRUE]
    ELSE [returned |-> munchify(json_loads(db[guild].doc)),
          db |-> db,
          wrote |-> FALSE]

\* get_rule_count(guild): rules_data.get("rules") on a str raises
\* AttributeError.
get_rule_count(db, guild) ==
    LET got        == get_guild_rules(db, guild)
        rules_data == got.returned
    IN  IF rules_data.depth > 0
        THEN [count |-> 0, raised |-> "AttributeError", got |-> got]
        ELSE [count |-> Len(rules_data.rules), raised |-> "none", got |-> got]

\* The history after a call that may have written the default rules.
Written(got, guild) ==
    IF got.wrote
    THEN [rules_written EXCEPT ![guild] = [written |-> TRUE, rules |-> DefaultRules]]
    ELSE rules_written

Rules_write_new_rules ==
    /\ \E guild \in Guilds, rules \in RuleLists :
          /\ rules_db' = write_new_rules(rules_db, guild, Doc(0, rules))
          /\ rules_written' = [rules_written EXCEPT
                                  ![guild] = [written |-> TRUE, rules |-> rules]]
          /\ rules_call' = [op |-> "write", guild |-> guild,
                            returned |-> Doc(0, <<>>), count |-> 0,
                            raised |-> "none"]
    /\ UNCHANGED <<bridge_vars, roundtrip_vars, gate_vars>>

Rules_get_guild_rules ==
    /\ \E guild \in Guilds :
          LET got == get_guild_rules(rules_db, guild)
          IN  /\ rules_db' = got.db
              /\ rules_written' = Written(got, guild)
              /\ rules_call' = [op |-> "get", guild |-> guild,
                                returned |-> got.returned, count |-> 0,
                                raised |-> "none"]
    /\ UNCHANGED <<bridge_vars, roundtrip_vars, gate_vars>>

Rules_get_rule_count ==
    /\ \E guild \in Guilds :
          LET counted == get_rule_count(rules_db, guild)
          IN  /\ rules_db' = counted.got.db
              /\ rules_written' = Written(counted.got, guild)
              /\ rules_call' = [op |-> "count", guild |-> guild,
                                returned |-> counted.got.returned,
                                count |-> counted.count,
                                raised |-> counted.raised]
    /\ UNCHANGED <<bridge_vars, roundtrip_vars, gate_vars>>

RulesInit ==
    /\ config = [send_limit |-> 1, notice_errors |-> FALSE,
                 commands_allowed |-> TRUE, stale_seconds |-> StaleSeconds]
    /\ topic = "none"
    /\ RelayStart
    /\ ReceiverStart
    /\ SideStart

RulesNext ==
    \/ Rules_write_new_rules
    \/ Rules_get_guild_rules
    \/ Rules_get_rule_count

RulesSpec == RulesInit /\ [][RulesNext]_vars

\* ------------------------------------------------- claims on the rules
\* C26: for any guild, get_guild_rules returns a rules object equal to the
\* one last stored by write_new_rules, whether that call created the row or
\* updated it, and get_rule_count returns the number of its rules; after
\* the default rules were created for a new guild these are the two default
\* rules and the count 2.
C26_RulesReadBackAsWritten ==
    rules_call.op \in {"get", "count"} =>
        LET written == rules_written[rules_call.guild]
        IN  /\ written.written
            /\ rules_call.raised = "none"
            /\ rules_call.returned = Doc(0, written.rules)
            /\ rules_call.op = "count" => rules_call.count = Len(written.rules)

\* C26 for the guilds whose row was last written by the update path.
C26_UpdatedRulesReadBack ==
    (/\ rules_call.op \in {"get", "count"}
     /\ rules_db[rules_call.guild].doc.depth = 1)
        => /\ rules_call.raised = "none"
           /\ rules_call.returned = Doc(0, rules_written[rules_call.guild].rules)
           /\ rules_call.op = "count" =>
                 rules_call.count = Len(rules_written[rules_call.guild].rules)

\* ------------------------------------------------------------- ServerGate
\* The longest text typed or configured, in letters.
MaxTextLen == 2

\* A text: its letters, after the bot's command prefix or not.
Text(prefixed, letters) == [prefixed |-> prefixed, letters |-> letters]

Letters == {"a", "A"}

Words == UNION {[1..n -> Letters] : n \in 1..MaxTextLen}

\* str.lower()
lower(text) ==
    Text(text.prefixed,
         [i \in DOMAIN text.letters |->
             IF text.letters[i] = "A" THEN "a" ELSE text.letters[i]])

\* ctx.guild.roles, by name; "ghost" can be configured but is no role of
\* the guild.
GuildRoles == {"member", "verified"}

\* The values of config.plugins.gate.roles.
RoleLists ==
    {<<>>, <<"ghost">>, <<"member">>, <<"member", "verified">>,
     <<"ghost", "verified">>}

\* match(config, ctx, _): the message is in the gate channel.
ServerGate_match(inGateChannel) == inGateChannel

\* get_roles(config, ctx): the configured roles that exist in the guild and
\* that the author does not hold, in configured order.
get_roles(roles, held) ==
    LET wanted(name) == name \in GuildRoles /\ name \notin held
    IN  SelectSeq(roles, wanted)

\* response(config, ctx, content, _)
ServerGate_response ==
    /\ \E inGateChannel \in BOOLEAN, prefixed \in BOOLEAN, letters \in Words,
          is_admin \in BOOLEAN :
          LET content == Text(prefixed, letters)
              roles   == get_roles(gate_config.roles, gate_held)
              granted == {roles[i] : i \in 1..Len(roles)}
              call(deleted, given, welcomed, logged) ==
                  [op |-> "response", content |-> content,
                   is_admin |-> is_admin, held |-> gate_held,
                   deleted |-> deleted, granted |-> given,
                   welcomed |-> welcomed, logged |-> logged]
          IN  /\ ServerGate_match(inGateChannel)
              /\ IF content.prefixed /\ is_admin
                 THEN /\ gate_call' = call(FALSE, {}, FALSE, FALSE)
                      /\ UNCHANGED gate_held
                 ELSE IF lower(content) = gate_config.verify_text
                 THEN IF roles = <<>>
                      THEN /\ gate_call' = call(TRUE, {}, FALSE, TRUE)
                           /\ UNCHANGED gate_held
                      ELSE /\ gate_call' = call(TRUE, granted, TRUE, FALSE)
                           /\ gate_held' = gate_held \cup granted
                 ELSE /\ gate_call' = call(TRUE, {}, FALSE, FALSE)
                      /\ UNCHANGED gate_held
    /\ UNCHANGED <<bridge_vars, roundtrip_vars, rules_vars, gate_config>>

GateInit ==
    /\ config = [send_limit |-> 1, notice_errors |-> FALSE,
                 commands_allowed |-> TRUE, stale_seconds |-> StaleSeconds]
    /\ topic = "none"
    /\ RelayStart
    /\ ReceiverStart
    /\ RoundTripStart
    /\ RulesStart
    /\ gate_config \in [verify_text : {Text(FALSE, letters) : letters \in Words},
                        roles : RoleLists]
    /\ gate_held \in {{}, {"member"}}
    /\ gate_call = [op |-> "none",
                    content |-> [prefixed |-> FALSE, letters |-> <<>>],
                    is_admin |-> FALSE, held |-> {}, deleted |-> FALSE,
                    granted |-> {}, welcomed |-> FALSE, logged |-> FALSE]

GateNext ==
    ServerGate_response

GateSpec == GateInit /\ [][GateNext]_vars

\* --------------------------------------------------- claims on the gate
\* The configured roles that exist in the guild and that the author did not
\* hold when the message came.
RolesDue ==
    {name \in GuildRoles :
        /\ \E i \in 1..Len(gate_config.roles) : gate_config.roles[i] = name
        /\ name \notin gate_call.held}

\* C27: for every configured verify_text, a message in the gate channel
\* from a user who is no admin that equals verify_text but for the case of
\* its letters is deleted and the user is given every configured role that
\* exists in the guild and that they do not hold; a message that does not
\* match grants no role.
C27_VerifyIgnoresCase ==
    (gate_call.op = "response" /\ ~gate_call.is_admin) =>
        IF lower(gate_call.content) = lower(gate_config.verify_text)
        THEN /\ gate_call.deleted
             /\ gate_call.granted = RolesDue
        ELSE gate_call.granted = {}

\* C27 for a verify_text configured in lower case.
C27_LowerCaseVerifyText ==
    (/\ gate_call.op = "response"
     /\ ~gate_call.is_admin
     /\ gate_config.verify_text = lower(gate_config.verify_text))
        => IF lower(gate_call.content) = lower(gate_config.verify_text)
           THEN /\ gate_call.deleted
                /\ gate_call.granted = RolesDue
           ELSE gate_call.granted = {}

====
